---------------------------- MODULE Spec2Model ----------------------------
(***************************************************************************)
(* Model of the oxg-blockchain node: the validator set manager             *)
(* (internal/consensus/validators.go), the ABCI application layer          *)
(* (internal/consensus/abci_app.go) and the EVM executor / state manager   *)
(* (internal/execution).                                                   *)
(*                                                                         *)
(* Abstractions, stated once:                                              *)
(*  - amounts in wei are scaled: StakeUnit stands for 10^18 and MaxPower   *)
(*    for 2^30 (TLC integers are 32 bit);                                  *)
(*  - a Merkle root is modelled by the world state it commits to (the      *)
(*    hash is collision free), the all-zero hash by ZeroHash;              *)
(*  - each ValidatorSet operation is one step, the critical section it     *)
(*    runs under vs.mutex; an operation that calls SaveValidators while    *)
(*    it holds the write lock stops at the RLock of SaveValidators         *)
(*    (sync.RWMutex is not reentrant) and leaves the mutex held;           *)
(*  - of Validator the fields the operations read are kept, and with      *)
(*    them MissedBlocks, TotalMissed and CreatedAt; LastActiveAt and       *)
(*    DelegatedTo are left out;                                            *)
(*  - the threshold of consecutive missed blocks (100) is scaled to        *)
(*    MissThreshold.                                                       *)
(***************************************************************************)
EXTENDS Integers, Sequences, FiniteSets, TLC

\* ------------------------------------------------------------------ bounds
StakeUnit == 2
MaxPower == 3
MaxValidators == 2
MaxOps == 2
MaxBlocks == 2
MaxTime == 1
MaxTxs == 2
MaxDisturbances == 1
MaxRate == 2
RateWindow == 1
MaxBytes == 3
MaxHints == 2
MissThreshold == 2
MaxMissed == 3

\* -------------------------------------------------------- program constants
RotationInterval == 100
PubKeySize == 32
IntrinsicGas == 21000

\* ------------------------------------------------------------------ domains
Addrs == {1, 2, 3}
Members == {1, 2}
MinStake == 2 * StakeUnit
MaxStake == (MaxPower + 2) * StakeUnit
StakeAmounts == {1, StakeUnit}
RegisterStakes == {MinStake - 1, MinStake, MinStake + StakeUnit + 1}
SlashPercents == {10, 50, 150}
JailDurations == {0, 1}
KeySizes == {PubKeySize, PubKeySize + 1}

VARIABLES
    validators,        \* vs.validators: address -> Validator
    mutex,             \* vs.mutex: "unlocked", or "deadlocked" once a holder waits for itself
    storedValidators,  \* storage key "validators:set"
    now,               \* wall clock
    opsDone,           \* number of ValidatorSet operations that passed their checks
    lastOp,            \* the last ValidatorSet operation that passed its checks, its
                       \* arguments, the time of the call and the validator as it was
    appHeight,         \* app.state.Height
    appHash,           \* app.state.AppHash
    appValidators,     \* app.state.Validators
    currentBlockHeight,
    currentBlockTxs,
    currentBlockReceipts,
    response,          \* the last FinalizeBlock response
    phase,             \* position of the consensus engine in the ABCI call order
    engineHeight,      \* height of the last block whose Commit has returned
    nextHeight,        \* height of the block the engine finalizes next
    blocksDone,
    emitted,           \* validator set the engine believes in: pubKey id -> power
    emittedBefore,     \* emitted, as it was before the last FinalizeBlock response
    valChanged,        \* a stake, jail state or membership changed since InitChain
    genesis,           \* the validators of the genesis document
    evm,               \* the executor's and the state manager's StateDB handles
    storedMeta,        \* storage state metadata ("state_meta")
    storedBlocks,      \* storage block/<height>
    storedTxs,         \* storage tx/<hash>
    latestHeight,      \* storage latest_height
    decided,           \* the block the engine decided last: its height and transactions
    peer,              \* a second node that receives the same ABCI calls and nothing else
    disturbed,         \* what else happened to this node: funded, crashedIdle, crashedMid
    blockCalls,        \* the hashes the last FinalizeBlock passed to storage.SaveTransaction
                       \* and to the callback installed with SetClearMempoolTx
    committed,         \* the last Commit: the storage call that failed in it and
                       \* whether it returned an error
    checked,           \* the last CheckTx: the hash of the transaction and the code
    limiter,           \* the mempool's rate limiter and the Allow calls in progress
    proposal           \* the last PrepareProposal call: what it read and what it returned

vars == <<validators, mutex, storedValidators, now, opsDone, lastOp, appHeight, appHash,
          appValidators, currentBlockHeight, currentBlockTxs, currentBlockReceipts,
          response, phase, engineHeight, nextHeight, blocksDone, emitted,
          emittedBefore, valChanged, genesis, evm, storedMeta, storedBlocks,
          storedTxs, latestHeight, decided, peer, disturbed, blockCalls, committed,
          checked, limiter,
                   proposal>>

valVars == <<validators, mutex, storedValidators, opsDone, lastOp, valChanged>>
appVars == <<appHeight, appHash, appValidators, currentBlockHeight, currentBlockTxs,
             currentBlockReceipts, response, phase, engineHeight, nextHeight,
             blocksDone, emitted, emittedBefore, genesis>>
evmVars == <<evm, storedMeta, storedBlocks, storedTxs, latestHeight, decided, peer,
             disturbed, blockCalls, committed, checked, limiter,
                   proposal>>

\* ----------------------------------------------------------------- helpers
Min(a, b) == IF a < b THEN a ELSE b
Max(a, b) == IF a > b THEN a ELSE b
Put(f, a, v) == [x \in (DOMAIN f) \cup {a} |-> IF x = a THEN v ELSE f[x]]
Remove(f, a) == [x \in (DOMAIN f) \ {a} |-> f[x]]
Range(s) == {s[i] : i \in DOMAIN s}
Perms(S) == {s \in [1..Cardinality(S) -> S] : \A i, j \in 1..Cardinality(S) : i # j => s[i] # s[j]}
Prefix(s, n) == [i \in 1..Min(n, Len(s)) |-> s[i]]
RECURSIVE SelectKeyOK(_)
SelectKeyOK(s) ==
    IF s = <<>> THEN <<>>
    ELSE IF Head(s).pubKey.size = PubKeySize
         THEN <<[pubKey |-> Head(s).pubKey, power |-> Head(s).power]>> \o SelectKeyOK(Tail(s))
         ELSE SelectKeyOK(Tail(s))

ZeroHash == [kind |-> "zero"]
NoData == [present |-> FALSE, list |-> {}]
NoValidator ==
    [address |-> 0, pubKey |-> [id |-> 0, size |-> 0], stake |-> 0, power |-> 0,
     jailed |-> FALSE, jailedUntil |-> 0, missedBlocks |-> 0, totalMissed |-> 0,
     createdAt |-> 0]
NoArgs == [amount |-> 0, percent |-> 0, duration |-> 0, missed |-> FALSE]
NoOp == [op |-> "none", addr |-> 0, args |-> NoArgs, time |-> 0, pre |-> NoValidator]
NoResponse == [height |-> 0, txResults |-> <<>>, validatorUpdates |-> <<>>]

\* ------------------------------------------------------------ ValidatorSet
calculatePowerNoCap(stake) == stake \div StakeUnit
calculatePower(stake) ==
    LET power == stake \div StakeUnit
    IN  IF power > MaxPower THEN MaxPower ELSE power

NewValidator(address, pubKey, stake, t) ==
    [address |-> address, pubKey |-> pubKey, stake |-> stake,
     power |-> calculatePower(stake), jailed |-> FALSE, jailedUntil |-> 0,
     missedBlocks |-> 0, totalMissed |-> 0, createdAt |-> t]

\* json.Marshal of the list of validators, and its json.Unmarshal into the map
EncodeValidators(vals) == [present |-> TRUE, list |-> {vals[a] : a \in DOMAIN vals}]
DecodeValidators(data) ==
    [a \in {v.address : v \in data.list} |-> CHOOSE v \in data.list : v.address = a]

LoadValidators(vals, stored) ==
    IF stored.present THEN DecodeValidators(stored) ELSE vals

\* the validators findLowestStakeValidator may return (map iteration order decides ties)
findLowestStakeValidator(vals) ==
    {a \in DOMAIN vals : \A b \in DOMAIN vals : vals[a].stake <= vals[b].stake}

IsActiveAny(v) == v.stake >= MinStake
IsActive(v) == ~v.jailed /\ v.stake >= MinStake
ActiveAddrs(vals) == {a \in DOMAIN vals : IsActive(vals[a])}

SortedDesc(s) == \A i, j \in DOMAIN s : i < j => s[i].stake >= s[j].stake

\* every order GetActiveValidators may return: sorted by stake, ties in any order
GetActiveValidators(vals) ==
    {[i \in DOMAIN p |-> vals[p[i]]] : p \in {q \in Perms(ActiveAddrs(vals)) :
        SortedDesc([i \in DOMAIN q |-> vals[q[i]]])}}

ToCometBFTValidators(vals) == {SelectKeyOK(s) : s \in GetActiveValidators(vals)}

\* RotateValidators, first half: the power of every validator is recomputed
RotatePowers(vals) ==
    [a \in DOMAIN vals |-> [vals[a] EXCEPT !.power = calculatePower(vals[a].stake)]]

\* RotateValidators, second half: the active copy in map order, cut to
\* maxValidators after a sort when it is longer, converted to updates
RotateUpdates(vals) ==
    LET act == ActiveAddrs(vals)
        copies == {[i \in DOMAIN p |-> vals[p[i]]] : p \in Perms(act)}
        cut == IF Cardinality(act) > MaxValidators
               THEN {Prefix(s, MaxValidators) : s \in {c \in copies : SortedDesc(c)}}
               ELSE copies
    IN  {SelectKeyOK(s) : s \in cut}

SlashAmount(stake, percent) == (stake * percent) \div 100

SlashNoEvict(vals, a, percent, dur, t) ==
    Put(vals, a, [vals[a] EXCEPT !.stake = @ - SlashAmount(@, percent),
                                 !.power = calculatePower(vals[a].stake - SlashAmount(vals[a].stake, percent)),
                                 !.jailed = TRUE, !.jailedUntil = t + dur])
SlashResult(vals, a, percent, dur, t) ==
    LET stake == vals[a].stake - SlashAmount(vals[a].stake, percent)
        v == [vals[a] EXCEPT !.stake = stake, !.power = calculatePower(stake),
                             !.jailed = TRUE, !.jailedUntil = t + dur]
    IN  IF stake < MinStake THEN Remove(vals, a) ELSE Put(vals, a, v)

\* outcome of an operation on the map: the map it leaves and whether it returned an error
Failed(vals) == [vals |-> vals, err |-> TRUE]
Done(vals) == [vals |-> vals, err |-> FALSE]

RegisterNoEvict(vals, address, pubKey, initialStake, t) ==
    IF address \in DOMAIN vals THEN {Failed(vals)}
    ELSE IF initialStake < MinStake THEN {Failed(vals)}
    ELSE {Done(Put(vals, address, NewValidator(address, pubKey, initialStake, t)))}
RegisterResult(vals, address, pubKey, initialStake, t) ==
    IF address \in DOMAIN vals THEN {Failed(vals)}
    ELSE IF initialStake < MinStake THEN {Failed(vals)}
    ELSE IF Cardinality(DOMAIN vals) >= MaxValidators
         THEN IF findLowestStakeValidator(vals) = {} THEN {Failed(vals)}
              ELSE {IF initialStake <= vals[low].stake
                    THEN Failed(vals)
                    ELSE Done(Put(Remove(vals, low), address,
                                  NewValidator(address, pubKey, initialStake, t)))
                    : low \in findLowestStakeValidator(vals)}
         ELSE {Done(Put(vals, address, NewValidator(address, pubKey, initialStake, t)))}

StakeResult(vals, address, amount) ==
    IF address \notin DOMAIN vals THEN Failed(vals)
    ELSE IF vals[address].jailed THEN Failed(vals)
    ELSE Done(Put(vals, address,
                  [vals[address] EXCEPT !.stake = @ + amount,
                                        !.power = calculatePower(vals[address].stake + amount)]))

UnstakeResult(vals, address, amount) ==
    IF address \notin DOMAIN vals THEN Failed(vals)
    ELSE IF vals[address].jailed THEN Failed(vals)
    ELSE IF vals[address].stake - amount < MinStake THEN Failed(vals)
    ELSE LET stake == vals[address].stake - amount
             v == [vals[address] EXCEPT !.stake = stake, !.power = calculatePower(stake)]
         IN  Done(IF stake < MinStake THEN Remove(vals, address) ELSE Put(vals, address, v))

UnjailResult(vals, address, t) ==
    IF address \notin DOMAIN vals THEN Failed(vals)
    ELSE IF ~vals[address].jailed THEN Failed(vals)
    ELSE IF t < vals[address].jailedUntil THEN Failed(vals)
    ELSE Done(Put(vals, address, [vals[address] EXCEPT !.jailed = FALSE, !.jailedUntil = 0,
                                                       !.missedBlocks = 0]))

\* InitChain's conversion of a genesis validator: the address is cut from the
\* public key (its last 20 bytes, here its id), the stake is power * 10^18
BytesToAddress(pubKey) == pubKey.id
GenesisValidator(gv) ==
    [Address |-> BytesToAddress(gv.pubKey), PubKey |-> gv.pubKey, Stake |-> gv.power * StakeUnit]

RECURSIVE InitializeGenesisValidators(_, _, _)
InitializeGenesisValidators(vals, gvs, t) ==
    IF gvs = <<>> THEN vals
    ELSE InitializeGenesisValidators(
             Put(vals, Head(gvs).Address,
                 NewValidator(Head(gvs).Address, Head(gvs).PubKey, Head(gvs).Stake, t)),
             Tail(gvs), t)

\* a call that reaches SaveValidators with the write lock held never returns
\* and never writes; a call that returns an error has released the lock and
\* has changed nothing. Commit does not read the set, so a call that arrives
\* between FinalizeBlock and Commit is taken after the Commit.
Operation(name, address, args, out) ==
    /\ mutex = "unlocked"
    /\ phase # "finalized"
    /\ opsDone < MaxOps
    /\ validators' = out.vals
    /\ mutex' = IF out.err THEN "unlocked" ELSE "deadlocked"
    /\ lastOp' = IF out.err THEN lastOp
                  ELSE [op |-> name, addr |-> address, args |-> args, time |-> now,
                        pre |-> IF address \in DOMAIN validators THEN validators[address]
                                ELSE NoValidator]
    /\ opsDone' = IF out.err THEN opsDone ELSE opsDone + 1
    /\ valChanged' = (valChanged \/ out.vals # validators)
    /\ UNCHANGED <<storedValidators, now>>
    /\ UNCHANGED appVars
    /\ UNCHANGED evmVars

RegisterValidator(address, pubKey, initialStake) ==
    \E out \in RegisterResult(validators, address, pubKey, initialStake, now) :
        Operation("RegisterValidator", address, [NoArgs EXCEPT !.amount = initialStake], out)

Stake(address, amount) ==
    /\ address \in DOMAIN validators => validators[address].stake + amount <= MaxStake
    /\ Operation("Stake", address, [NoArgs EXCEPT !.amount = amount],
                 StakeResult(validators, address, amount))

Unstake(address, amount) ==
    Operation("Unstake", address, [NoArgs EXCEPT !.amount = amount],
              UnstakeResult(validators, address, amount))

Slash(address, slashPercent, jailDuration) ==
    Operation("Slash", address, [NoArgs EXCEPT !.percent = slashPercent, !.duration = jailDuration],
              IF address \in DOMAIN validators
              THEN Done(SlashResult(validators, address, slashPercent, jailDuration, now))
              ELSE Failed(validators))

Unjail(address) ==
    Operation("Unjail", address, NoArgs, UnjailResult(validators, address, now))

\* the validator as UpdateValidatorActivity leaves it: at the threshold the
\* slash is computed for the log only and the consecutive count starts again
ActivityResult(v, missedBlock) ==
    IF missedBlock
    THEN LET missed == v.missedBlocks + 1
         IN  [v EXCEPT !.missedBlocks = IF missed >= MissThreshold THEN 0 ELSE missed,
                       !.totalMissed = @ + 1]
    ELSE [v EXCEPT !.missedBlocks = 0]

\* it takes the write lock and saves nothing: it returns in every case
UpdateValidatorActivity(address, missedBlock) ==
    /\ mutex = "unlocked"
    /\ address \in DOMAIN validators => validators[address].totalMissed < MaxMissed
    /\ validators' = IF address \in DOMAIN validators
                      THEN Put(validators, address, ActivityResult(validators[address], missedBlock))
                      ELSE validators
    /\ lastOp' = [op |-> "UpdateValidatorActivity", addr |-> address,
                   args |-> [NoArgs EXCEPT !.missed = missedBlock], time |-> now,
                   pre |-> IF address \in DOMAIN validators THEN validators[address]
                           ELSE NoValidator]
    /\ UNCHANGED <<mutex, storedValidators, opsDone, valChanged, now>>
    /\ UNCHANGED appVars
    /\ UNCHANGED evmVars

\* the validators for which the set holds a slash to apply once the lock is
\* released: Validator and ValidatorSet have no field for it, the consecutive
\* count is all the set keeps of the missed blocks
PendingSlashes(vals) == {a \in DOMAIN vals : vals[a].missedBlocks >= MissThreshold}

\* the clock is read by Slash and Unjail only: it advances while they can run
Tick ==
    /\ now < MaxTime
    /\ mutex = "unlocked"
    /\ opsDone < MaxOps
    /\ now' = now + 1
    /\ UNCHANGED <<valVars, appVars, evmVars>>

\* ------------------------------------------------ EVM executor, StateManager
Accts == {"A", "B", "Z"}
ZeroAddress == "Z"
EmptyWorld == [a \in Accts |-> [balance |-> 0, nonce |-> 0]]
AddBalance(w, a, amount) == [w EXCEPT ![a].balance = @ + amount]
SubBalance(w, a, amount) == [w EXCEPT ![a].balance = @ - amount]
IsHexAddress(s) == s \in Accts
HexToAddress(s) == IF s = "" THEN ZeroAddress ELSE s

\* the transactions of the model; every one carries gas_limit = IntrinsicGas
MkTx(decodes, hash, from, to, valueOK, value, gasPrice, nonce) ==
    [decodes |-> decodes, hash |-> hash, from |-> from, to |-> to, valueOK |-> valueOK,
     value |-> value, gasPriceOK |-> TRUE, gasPrice |-> gasPrice, nonce |-> nonce]
TxUniverse ==
    {MkTx(FALSE, "t0", "", "", FALSE, 0, 0, 0),
     MkTx(TRUE, "t1", "", "B", TRUE, 0, 0, 0),
     MkTx(TRUE, "t2", "A", "B", FALSE, 0, 0, 0),
     MkTx(TRUE, "t3", "A", "B", TRUE, 0, 0, 0),
     MkTx(TRUE, "t4", "A", "", TRUE, 1, 0, 0),
     MkTx(TRUE, "t5", "B", "A", TRUE, 0, 0, 0)}
TxLists == UNION {[1..n -> TxUniverse] : n \in 0..MaxTxs}

validateTransaction(tx) ==
    /\ tx.from # ""
    /\ IsHexAddress(tx.from)
    /\ (tx.to # "" => IsHexAddress(tx.to))

\* what CheckTx reads of a transaction and FinalizeBlock does not: the
\* signature, and whether the hash is the hash of the fields
WithSignature(tx, gasPriceOK, signature, hashOK) ==
    [decodes |-> tx.decodes, hash |-> tx.hash, from |-> tx.from, to |-> tx.to,
     valueOK |-> tx.valueOK, value |-> tx.value, gasPriceOK |-> gasPriceOK,
     gasPrice |-> tx.gasPrice, nonce |-> tx.nonce, signature |-> signature,
     hashOK |-> hashOK]
CheckTxUniverse ==
    {WithSignature(MkTx(FALSE, "c0", "", "", FALSE, 0, 0, 0), FALSE, "", FALSE),
     WithSignature(MkTx(TRUE, "c1", "A", "B", TRUE, 0, 1, 0), TRUE, "good", TRUE),
     WithSignature(MkTx(TRUE, "c2", "A", "B", TRUE, 1, 1, 0), TRUE, "good", TRUE),
     WithSignature(MkTx(TRUE, "c3", "A", "B", TRUE, 1, 0, 0), TRUE, "good", TRUE),
     WithSignature(MkTx(TRUE, "c4", "A", "B", TRUE, 0, 0, 1), TRUE, "good", TRUE),
     WithSignature(MkTx(TRUE, "c5", "A", "B", TRUE, 0, 0, 0), TRUE, "", TRUE),
     WithSignature(MkTx(TRUE, "c6", "A", "B", TRUE, 0, 0, 0), TRUE, "bad", TRUE),
     WithSignature(MkTx(TRUE, "c7", "A", "B", TRUE, 0, 0, 0), TRUE, "good", FALSE),
     WithSignature(MkTx(TRUE, "c8", "A", "B", TRUE, 0, 0, 0), FALSE, "good", TRUE),
     WithSignature(MkTx(TRUE, "c9", "", "B", TRUE, 0, 0, 0), TRUE, "good", TRUE)}

\* TRUE when validateTransactionComplete returns no error; w is the world
\* behind the executor's handle, which GetState reads
validateTransactionCompleteAnyNonce(w, tx) ==
    /\ validateTransaction(tx)
    /\ tx.hash # ""
    /\ ~(tx.valueOK /\ tx.value = 0) =>
           /\ tx.valueOK
           /\ tx.gasPriceOK
           /\ w[HexToAddress(tx.from)].balance >= tx.value + tx.gasPrice * IntrinsicGas
    /\ tx.signature # ""
    /\ tx.signature = "good"
    /\ tx.hashOK
validateTransactionComplete(w, tx) ==
    /\ validateTransaction(tx)
    /\ tx.hash # ""
    /\ tx.nonce >= w[HexToAddress(tx.from)].nonce
    /\ ~(tx.valueOK /\ tx.value = 0) =>
           /\ tx.valueOK
           /\ tx.gasPriceOK
           /\ w[HexToAddress(tx.from)].balance >= tx.value + tx.gasPrice * IntrinsicGas
    /\ tx.signature # ""
    /\ tx.signature = "good"
    /\ tx.hashOK

CheckTxCode(w, tx) ==
    IF ~tx.decodes THEN 1
    ELSE IF ~validateTransactionComplete(w, tx) THEN 2
    ELSE 0

\* core.ApplyMessage for a plain transfer: nonce and balance pre-checks, then
\* the gas is bought, the value moved and the fee paid to the coinbase
ApplyMessageFree(w, from, to, value, gasPrice, nonce) ==
    LET bought == [SubBalance(w, from, value) EXCEPT ![from].nonce = @ + 1]
    IN  IF w[from].nonce # nonce THEN [world |-> w, failed |-> TRUE, gasUsed |-> 0]
        ELSE IF w[from].balance < value THEN [world |-> w, failed |-> TRUE, gasUsed |-> 0]
        ELSE [world |-> AddBalance(bought, to, value), failed |-> FALSE,
              gasUsed |-> IntrinsicGas]
ApplyMessage(w, from, to, value, gasPrice, nonce) ==
    LET fee == IntrinsicGas * gasPrice
        bought == [SubBalance(w, from, fee + value) EXCEPT ![from].nonce = @ + 1]
    IN  IF w[from].nonce # nonce THEN [world |-> w, failed |-> TRUE, gasUsed |-> 0]
        ELSE IF w[from].balance < fee + value THEN [world |-> w, failed |-> TRUE, gasUsed |-> 0]
        ELSE [world |-> AddBalance(AddBalance(bought, to, value), ZeroAddress, fee),
              failed |-> FALSE, gasUsed |-> IntrinsicGas]

ExecuteTransaction(w, tx) ==
    IF ~tx.valueOK THEN [world |-> w, err |-> TRUE, success |-> FALSE, gasUsed |-> 0]
    ELSE IF ~tx.gasPriceOK THEN [world |-> w, err |-> TRUE, success |-> FALSE, gasUsed |-> 0]
    ELSE LET r == ApplyMessage(w, HexToAddress(tx.from), HexToAddress(tx.to),
                               tx.value, tx.gasPrice, tx.nonce)
         IN  [world |-> r.world, err |-> FALSE, success |-> ~r.failed, gasUsed |-> r.gasUsed]

\* the two StateDB handles: exec is what e.stateDB holds, sm what sm.stateDB
\* holds, same whether they are one object
EvmWrite(e, w) == [exec |-> w, sm |-> IF e.same THEN w ELSE e.sm, same |-> e.same]
Root(w) == [kind |-> "root", world |-> w]
GetRootHash(e) == Root(e.sm)
NoMeta == [present |-> FALSE, root |-> ZeroHash, height |-> 0, appHash |-> ZeroHash]
LoadState(meta) ==
    LET w == IF meta.present /\ meta.root # ZeroHash THEN meta.root.world ELSE EmptyWorld
    IN  [exec |-> w, sm |-> w, same |-> TRUE]
\* StateManager.SaveState commits sm.stateDB and replaces it by a reloaded
\* handle; the executor keeps the handle it got from Start
SaveState(e) == [exec |-> e.exec, sm |-> e.sm, same |-> FALSE]
FundResult(e, address, amount) == EvmWrite(e, AddBalance(e.exec, address, amount))

\* ----------------------------------------------------------------- ABCIApp
Key(i, size) == [id |-> i, size |-> size]
GenesisValidators ==
    <<{[pubKey |-> Key(1, PubKeySize), power |-> p] : p \in {2, MaxPower + 1}},
      {[pubKey |-> Key(2, PubKeySize), power |-> p] : p \in {1, 2}},
      {[pubKey |-> Key(3, sz), power |-> 2] : sz \in KeySizes}>>
\* a genesis whose only validator holds less than the minimum stake
WeakGenesis == <<[pubKey |-> Key(2, PubKeySize), power |-> 1]>>
GenesisDocs ==
    UNION {{g \in [1..n -> UNION Range(GenesisValidators)] :
               \A i \in 1..n : g[i] \in GenesisValidators[i]} : n \in 0..3}
        \cup {WeakGenesis}
TxGenesis == <<[pubKey |-> Key(1, PubKeySize), power |-> 2]>>
\* the InitChain requests: every genesis with the initial height that puts the
\* second block on a rotation boundary, one of them with initial height 1
InitChainRequests ==
    {[validators |-> gen, initialHeight |-> RotationInterval - 1] : gen \in GenesisDocs}
        \cup {[validators |-> TxGenesis, initialHeight |-> 1]}
TxHeights == {1, 2}

Info == [LastBlockHeight |-> appHeight, LastBlockAppHash |-> appHash]
QueryHeight == appHeight

\* the last power listed for each public key
ToMap(s) ==
    [k \in {s[i].pubKey : i \in DOMAIN s} |->
        s[CHOOSE i \in DOMAIN s : s[i].pubKey = k /\ \A j \in DOMAIN s : s[j].pubKey = k => j <= i].power]

hasValidatorChanges(current, updates) ==
    IF Len(current) # Len(updates) THEN TRUE
    ELSE LET currentMap == ToMap(current)
             updateMap == ToMap(updates)
         IN  \/ \E k \in DOMAIN updateMap : k \notin DOMAIN currentMap \/ currentMap[k] # updateMap[k]
             \/ \E k \in DOMAIN currentMap : k \notin DOMAIN updateMap

\* what the engine makes of a list of updates: power 0 removes the key
ApplyUpdates(em, updates) ==
    LET um == ToMap(updates)
        keys == {k \in (DOMAIN em) \cup (DOMAIN um) : IF k \in DOMAIN um THEN um[k] # 0 ELSE TRUE}
    IN  [k \in keys |-> IF k \in DOMAIN um THEN um[k] ELSE em[k]]

\* one pass of the transaction loop of FinalizeBlock, from world w
ProcessTxReceiptOnRevert(w, tx, height) ==
    LET r == ExecuteTransaction(w, tx)
        code == IF ~tx.decodes THEN 1
                ELSE IF ~validateTransaction(tx) THEN 2
                ELSE IF r.err THEN 3
                ELSE IF ~r.success THEN 4 ELSE 0
    IN  [world |-> IF code = 0 THEN r.world ELSE w,
         result |-> [code |-> code, gasUsed |-> IF code \in {0, 4} THEN r.gasUsed ELSE 0,
                     tx |-> tx.hash],
         txs |-> IF code = 0 THEN <<tx>> ELSE <<>>,
         receipts |-> IF code \in {0, 4}
                      THEN <<[TransactionHash |-> tx.hash, BlockNumber |-> height,
                              GasUsed |-> r.gasUsed, Status |-> "success"]>>
                      ELSE <<>>,
         saved |-> IF code = 0 THEN {tx.hash} ELSE {},
         cleared |-> IF code \in {0, 4} THEN {tx.hash} ELSE {}]
ProcessTxKeepsEntry(w, tx, height) ==
    LET r == ExecuteTransaction(w, tx)
        code == IF ~tx.decodes THEN 1
                ELSE IF ~validateTransaction(tx) THEN 2
                ELSE IF r.err THEN 3
                ELSE IF ~r.success THEN 4 ELSE 0
    IN  [world |-> IF code = 0 THEN r.world ELSE w,
         result |-> [code |-> code, gasUsed |-> IF code \in {0, 4} THEN r.gasUsed ELSE 0,
                     tx |-> tx.hash],
         txs |-> IF code = 0 THEN <<tx>> ELSE <<>>,
         receipts |-> IF code = 0
                      THEN <<[TransactionHash |-> tx.hash, BlockNumber |-> height,
                              GasUsed |-> r.gasUsed, Status |-> "success"]>>
                      ELSE <<>>,
         saved |-> IF code = 0 THEN {tx.hash} ELSE {},
         cleared |-> IF code = 4 THEN {tx.hash} ELSE {}]
ProcessTx(w, tx, height) ==
    LET r == ExecuteTransaction(w, tx)
        code == IF ~tx.decodes THEN 1
                ELSE IF ~validateTransaction(tx) THEN 2
                ELSE IF r.err THEN 3
                ELSE IF ~r.success THEN 4 ELSE 0
    IN  [world |-> IF code = 0 THEN r.world ELSE w,
         result |-> [code |-> code, gasUsed |-> IF code \in {0, 4} THEN r.gasUsed ELSE 0,
                     tx |-> tx.hash],
         txs |-> IF code = 0 THEN <<tx>> ELSE <<>>,
         receipts |-> IF code = 0
                      THEN <<[TransactionHash |-> tx.hash, BlockNumber |-> height,
                              GasUsed |-> r.gasUsed, Status |-> "success"]>>
                      ELSE <<>>,
         saved |-> IF code = 0 THEN {tx.hash} ELSE {},
         cleared |-> IF code \in {0, 4} THEN {tx.hash} ELSE {}]

NoTxs(w) ==
    [world |-> w, results |-> <<>>, txs |-> <<>>, receipts |-> <<>>, saved |-> {},
     cleared |-> {}]

\* the transaction loop of FinalizeBlock, from world w
RECURSIVE ProcessTxs(_, _, _)
ProcessTxsAbort(w, txs, height) ==
    IF txs = <<>> THEN NoTxs(w)
    ELSE LET one == ProcessTx(w, Head(txs), height)
             rest == IF one.result.code = 0 THEN ProcessTxs(one.world, Tail(txs), height)
                     ELSE NoTxs(one.world)
         IN  [world |-> rest.world,
              results |-> <<one.result>> \o rest.results,
              txs |-> one.txs \o rest.txs,
              receipts |-> one.receipts \o rest.receipts,
              saved |-> one.saved \cup rest.saved,
              cleared |-> one.cleared \cup rest.cleared]
ProcessTxs(w, txs, height) ==
    IF txs = <<>> THEN NoTxs(w)
    ELSE LET one == ProcessTx(w, Head(txs), height)
             rest == ProcessTxs(one.world, Tail(txs), height)
         IN  [world |-> rest.world,
              results |-> <<one.result>> \o rest.results,
              txs |-> one.txs \o rest.txs,
              receipts |-> one.receipts \o rest.receipts,
              saved |-> one.saved \cup rest.saved,
              cleared |-> one.cleared \cup rest.cleared]

\* the rotation block of FinalizeBlock: the map it leaves and the updates it returns
Rotation(vals, boundary) ==
    IF ~boundary THEN {[vals |-> vals, updates |-> <<>>]}
    ELSE {IF Len(current) <= 1
          THEN [vals |-> vals, updates |-> <<>>]
          ELSE [vals |-> RotatePowers(vals),
                updates |-> IF Len(updates) > 0 /\ hasValidatorChanges(current, updates)
                            THEN updates ELSE <<>>]
          : current \in ToCometBFTValidators(vals),
            updates \in RotateUpdates(RotatePowers(vals))}

NoBlock == [height |-> 0, txs |-> <<>>]
NoCalls == [saved |-> {}, cleared |-> {}]
NoCommit == [failed |-> "none", err |-> FALSE]
NoCheck == [tx |-> "", code |-> 0]

\* the rate limiter of the mempool: per sender the times of the admissions
\* that count, a lock per sender, and the Allow calls in progress
Senders == {"A", "B"}
Callers == {1, 2}
NoCall == [pc |-> "idle", address |-> "", seen |-> <<>>, result |-> FALSE]
NewRateLimiter ==
    [times |-> [a \in Senders |-> <<>>],
     lock |-> [a \in Senders |-> 0],
     calls |-> [c \in Callers |-> NoCall],
     granted |-> [a \in Senders |-> <<>>]]
\* PrepareProposal. A raw transaction is a byte string: the transaction it
\* decodes to (its hash) in one of the JSON forms that decode to it. "marshal"
\* is the form json.Marshal writes; "spaced" is the same object with
\* whitespace between its members, one byte longer in the model
Forms == {"marshal", "spaced"}
ProposalHashes == {"t3", "t5"}
RawTxs == [hash : ProposalHashes, form : Forms]
Marshal(tx) == [hash |-> tx, form |-> "marshal"]
Unmarshal(raw) == raw.hash
Size(raw) == IF raw.form = "marshal" THEN 1 ELSE 2
\* the local mempool holds a transaction once
MempoolLists ==
    {m \in UNION {[1..n -> ProposalHashes] : n \in 0..2} :
        \A i, j \in DOMAIN m : i # j => m[i] # m[j]}
HintLists == UNION {[1..n -> RawTxs] : n \in 0..MaxHints}
NoProposal == [mempool |-> <<>>, maxTxBytes |-> 0, hints |-> <<>>, local |-> <<>>, txs |-> <<>>]

\* the loop over the local mempool: it stops at the first entry that does not fit
RECURSIVE TakeLocal(_, _, _, _)
TakeLocal(localMempool, maxTxBytes, txs, totalBytes) ==
    IF localMempool = <<>> THEN [txs |-> txs, totalBytes |-> totalBytes]
    ELSE LET txBytes == Marshal(Head(localMempool))
         IN  IF totalBytes + Size(txBytes) > maxTxBytes
             THEN [txs |-> txs, totalBytes |-> totalBytes]
             ELSE TakeLocal(Tail(localMempool), maxTxBytes, Append(txs, txBytes),
                            totalBytes + Size(txBytes))

\* the loop over req.Txs: an entry is a duplicate when its bytes are in the list
RECURSIVE TakeHints(_, _, _, _)
TakeHints(reqTxs, maxTxBytes, txs, totalBytes) ==
    IF reqTxs = <<>> THEN txs
    ELSE LET tx == Head(reqTxs)
             isDuplicate == \E i \in DOMAIN txs : txs[i] = tx
         IN  IF totalBytes + Size(tx) > maxTxBytes THEN txs
             ELSE IF isDuplicate THEN TakeHints(Tail(reqTxs), maxTxBytes, txs, totalBytes)
             ELSE TakeHints(Tail(reqTxs), maxTxBytes, Append(txs, tx), totalBytes + Size(tx))

\* getMempool returns localMempool (the empty list stands for a nil getMempool too)
PrepareProposal(localMempool, maxTxBytes, reqTxs) ==
    /\ LET taken == TakeLocal(localMempool, maxTxBytes, <<>>, 0)
       IN  proposal' = [mempool |-> localMempool, maxTxBytes |-> maxTxBytes, hints |-> reqTxs,
                        local |-> taken.txs,
                        txs |-> TakeHints(reqTxs, maxTxBytes, taken.txs, taken.totalBytes)]
    /\ UNCHANGED <<valVars, now, appVars, evm, storedMeta, storedBlocks, storedTxs,
                   latestHeight, decided, peer, disturbed, blockCalls, committed, checked,
                   limiter>>

\* the storage calls of Commit that can fail
StorageFailures == {"none", "SaveState", "SaveBlock"}
NotDisturbed ==
    [funds |-> 0, crashes |-> 0, failures |-> 0, inCommit |-> 0, crashedIdle |-> FALSE,
     crashedMid |-> FALSE]
\* the storage calls of Commit after which the process can be killed
CrashPoints == {"SaveState", "SaveBlock"}
Disturbances == disturbed.funds + disturbed.crashes + disturbed.failures

Init ==
    /\ validators = <<>>
    /\ mutex = "unlocked"
    /\ storedValidators = NoData
    /\ now = 0
    /\ opsDone = 0
    /\ lastOp = NoOp
    /\ appHeight = 0
    /\ appHash = ZeroHash
    /\ appValidators = <<>>
    /\ currentBlockHeight = 0
    /\ currentBlockTxs = <<>>
    /\ currentBlockReceipts = <<>>
    /\ response = NoResponse
    /\ phase = "new"
    /\ engineHeight = 0
    /\ nextHeight = 0
    /\ blocksDone = 0
    /\ emitted = <<>>
    /\ emittedBefore = <<>>
    /\ valChanged = FALSE
    /\ genesis = <<>>
    /\ evm = LoadState(NoMeta)
    /\ storedMeta = NoMeta
    /\ storedBlocks = <<>>
    /\ storedTxs = {}
    /\ latestHeight = 0
    /\ decided = NoBlock
    /\ peer = [evm |-> LoadState(NoMeta), appHash |-> ZeroHash]
    /\ disturbed = NotDisturbed
    /\ blockCalls = NoCalls
    /\ committed = NoCommit
    /\ checked = NoCheck
    /\ limiter = NewRateLimiter
    /\ proposal = NoProposal

\* InitChain at genesis, and again after a restart: Info reports height 0
\* then, and the engine, seeing height 0, calls InitChain before it replays
InitChain(gen, initialHeight) ==
    /\ phase \in {"new", "restarted"}
    /\ IF phase = "new"
       THEN genesis' = gen /\ nextHeight' = initialHeight
       ELSE gen = genesis /\ UNCHANGED <<genesis, nextHeight>>
    /\ IF mutex = "deadlocked"
       THEN /\ phase' = "blocked"
            /\ UNCHANGED <<validators, storedValidators, appValidators, emitted, valChanged>>
       ELSE LET loaded == LoadValidators(validators, storedValidators)
                seed == GetActiveValidators(loaded) = {<<>>}
                vals == IF seed
                        THEN InitializeGenesisValidators(loaded,
                                 [i \in DOMAIN gen |-> GenesisValidator(gen[i])], now)
                        ELSE loaded
            IN  /\ validators' = vals
                /\ storedValidators' = IF seed THEN EncodeValidators(vals) ELSE storedValidators
                /\ \E av \in (IF Len(gen) > 0 THEN {gen} ELSE ToCometBFTValidators(vals)) :
                       /\ appValidators' = av
                       /\ emitted' = IF phase = "new" THEN ToMap(av) ELSE emitted
                /\ valChanged' = FALSE
                /\ phase' = "idle"
    /\ UNCHANGED <<mutex, now, opsDone, lastOp, appHeight, appHash, currentBlockHeight,
                   currentBlockTxs, currentBlockReceipts, response, engineHeight,
                   blocksDone, emittedBefore>>
    /\ UNCHANGED evmVars

FinalizeBlock(height, txs) ==
    /\ phase \in {"idle", "restarted"}
    /\ height = nextHeight
    /\ blocksDone < MaxBlocks
    /\ decided.height = height => txs = decided.txs
    /\ LET run == ProcessTxs(evm.exec, txs, height)
           boundary == height > 0 /\ height % RotationInterval = 0
       IN  /\ appHeight' = height
           /\ currentBlockHeight' = height
           /\ currentBlockTxs' = run.txs
           /\ currentBlockReceipts' = run.receipts
           /\ evm' = EvmWrite(evm, run.world)
           /\ storedTxs' = storedTxs \cup run.saved
           /\ blockCalls' = [saved |-> run.saved, cleared |-> run.cleared]
           /\ decided' = [height |-> height, txs |-> txs]
           /\ peer' = IF decided.height = height THEN peer
                      ELSE [peer EXCEPT !.evm = EvmWrite(@, ProcessTxs(@.exec, txs, height).world)]
           /\ IF boundary /\ mutex = "deadlocked"
              THEN /\ phase' = "blocked"
                   /\ UNCHANGED <<validators, response, emitted, emittedBefore>>
              ELSE \E rot \in Rotation(validators, boundary) :
                       /\ validators' = rot.vals
                       /\ response' = [height |-> height, txResults |-> run.results,
                                       validatorUpdates |-> rot.updates]
                       /\ emittedBefore' = emitted
                       /\ emitted' = ApplyUpdates(emitted, rot.updates)
                       /\ phase' = "finalized"
    /\ UNCHANGED <<mutex, storedValidators, now, opsDone, lastOp, appHash, appValidators,
                   engineHeight, nextHeight, blocksDone, valChanged, genesis, storedMeta,
                   storedBlocks, latestHeight, disturbed, committed, checked, limiter,
                   proposal>>

\* the hash Commit stores: the state root, or the hash of app.state when there is none
CommitHash(root) ==
    IF root # ZeroHash THEN root
    ELSE [kind |-> "keccak", Height |-> appHeight, AppHash |-> appHash, Validators |-> appValidators]

ParentHash(blocks, height) ==
    IF height > 0 /\ (height - 1) \in DOMAIN blocks THEN blocks[height - 1].Hash ELSE ""

Commit(failed) ==
    /\ phase = "finalized"
    /\ failed # "none" => Disturbances < MaxDisturbances
    /\ LET saved == SaveState(evm)
           stateRoot == GetRootHash(saved)
           hash == CommitHash(stateRoot)
       IN  /\ evm' = saved
           /\ appHash' = hash
           /\ storedMeta' = IF failed = "SaveState" THEN storedMeta
                            ELSE [present |-> TRUE, root |-> stateRoot, height |-> appHeight,
                                  appHash |-> hash]
           /\ IF currentBlockHeight > 0 /\ failed # "SaveBlock"
              THEN /\ storedBlocks' = Put(storedBlocks, currentBlockHeight,
                                          [Height |-> currentBlockHeight, Hash |-> hash,
                                           ParentHash |-> ParentHash(storedBlocks, currentBlockHeight),
                                           Transactions |-> currentBlockTxs,
                                           Receipts |-> currentBlockReceipts])
                   /\ latestHeight' = currentBlockHeight
              ELSE UNCHANGED <<storedBlocks, latestHeight>>
    /\ committed' = [failed |-> failed, err |-> FALSE]
    /\ disturbed' = IF failed = "none" THEN disturbed
                    ELSE [disturbed EXCEPT !.failures = @ + 1]
    /\ peer' = [evm |-> SaveState(peer.evm),
                appHash |-> GetRootHash(SaveState(peer.evm))]
    /\ engineHeight' = currentBlockHeight
    /\ nextHeight' = nextHeight + 1
    /\ blocksDone' = blocksDone + 1
    /\ phase' = "idle"
    /\ UNCHANGED <<valVars, now, appHeight, appValidators, currentBlockHeight, currentBlockTxs,
                   currentBlockReceipts, response, emitted, emittedBefore, genesis,
                   storedTxs, decided, blockCalls, checked, limiter,
                   proposal>>

\* the process is killed and started again on the same data directory
Restart ==
    /\ phase \in {"idle", "finalized", "blocked"}
    /\ Disturbances < MaxDisturbances
    /\ validators' = LoadValidators(<<>>, storedValidators)
    /\ mutex' = "unlocked"
    /\ lastOp' = NoOp
    /\ valChanged' = (valChanged \/ validators' # validators)
    /\ evm' = LoadState(storedMeta)
    /\ appHeight' = 0
    /\ appHash' = ZeroHash
    /\ appValidators' = <<>>
    /\ currentBlockHeight' = 0
    /\ currentBlockTxs' = <<>>
    /\ currentBlockReceipts' = <<>>
    /\ response' = NoResponse
    /\ phase' = "restarted"
    /\ disturbed' = [disturbed EXCEPT !.crashes = @ + 1,
                                      !.crashedIdle = @ \/ phase = "idle",
                                      !.crashedMid = @ \/ phase # "idle"]
    /\ blockCalls' = NoCalls
    /\ committed' = NoCommit
    /\ checked' = NoCheck
    /\ UNCHANGED <<storedValidators, now, opsDone, engineHeight, nextHeight, blocksDone,
                   emitted, emittedBefore, genesis, storedMeta, storedBlocks, storedTxs,
                   latestHeight, decided, peer, limiter,
                   proposal>>

\* the process is killed inside Commit, right after the storage call named by
\* after has returned, and started again on the same data directory
CrashInCommit(after) ==
    /\ phase = "finalized"
    /\ Disturbances < MaxDisturbances
    /\ LET saved == SaveState(evm)
           stateRoot == GetRootHash(saved)
           hash == CommitHash(stateRoot)
       IN  /\ storedMeta' = [present |-> TRUE, root |-> stateRoot, height |-> appHeight,
                             appHash |-> hash]
           /\ storedBlocks' =
                  IF currentBlockHeight > 0 /\ after = "SaveBlock"
                  THEN Put(storedBlocks, currentBlockHeight,
                           [Height |-> currentBlockHeight, Hash |-> hash,
                            ParentHash |-> ParentHash(storedBlocks, currentBlockHeight),
                            Transactions |-> currentBlockTxs,
                            Receipts |-> currentBlockReceipts])
                  ELSE storedBlocks
    /\ validators' = LoadValidators(<<>>, storedValidators)
    /\ mutex' = "unlocked"
    /\ lastOp' = NoOp
    /\ valChanged' = (valChanged \/ validators' # validators)
    /\ evm' = LoadState(storedMeta')
    /\ appHeight' = 0
    /\ appHash' = ZeroHash
    /\ appValidators' = <<>>
    /\ currentBlockHeight' = 0
    /\ currentBlockTxs' = <<>>
    /\ currentBlockReceipts' = <<>>
    /\ response' = NoResponse
    /\ phase' = "restarted"
    /\ disturbed' = [disturbed EXCEPT !.crashes = @ + 1, !.inCommit = @ + 1,
                                      !.crashedMid = TRUE]
    /\ blockCalls' = NoCalls
    /\ committed' = NoCommit
    /\ checked' = NoCheck
    /\ UNCHANGED <<storedValidators, now, opsDone, engineHeight, nextHeight, blocksDone,
                   emitted, emittedBefore, genesis, storedTxs, latestHeight, decided,
                   peer, limiter,
                   proposal>>

\* POST /fund of the REST server
FundAccount(address, amount) ==
    /\ phase # "new"
    /\ Disturbances < MaxDisturbances
    /\ evm' = FundResult(evm, address, amount)
    /\ disturbed' = [disturbed EXCEPT !.funds = @ + 1]
    /\ UNCHANGED <<valVars, now, appVars, storedMeta, storedBlocks, storedTxs, latestHeight,
                   decided, peer, blockCalls, committed, checked, limiter,
                   proposal>>

\* Query paths are sequences of characters; an address, a transaction hash or
\* a height at the end of a path is kept as one element
HeightPath == <<"h", "e", "i", "g", "h", "t">>
BalancePrefix == <<"b", "a", "l", "a", "n", "c", "e", "/">>
AccountPrefix == <<"a", "c", "c", "o", "u", "n", "t", "/">>
TxPrefix == <<"t", "x", "/">>
BlockPrefix == <<"b", "l", "o", "c", "k", "/">>
UnknownPath == <<"f", "o", "o">>
QueryPaths ==
    {HeightPath, UnknownPath}
        \cup {BalancePrefix \o <<a>> : a \in Accts}
        \cup {AccountPrefix \o <<a>> : a \in Accts}
        \cup {TxPrefix \o <<tx.hash>> : tx \in CheckTxUniverse}
        \cup {BlockPrefix \o <<h>> : h \in TxHeights}
\* path[:n] and path[n:]
Slice(path, n) == SubSeq(path, 1, n)
SliceFrom(path, n) == SubSeq(path, n + 1, Len(path))
\* EVMExecutor.GetState of the address written by the characters in address
GetState(e, address) ==
    LET addr == IF Len(address) = 1 /\ address[1] \in Accts THEN address[1] ELSE ZeroAddress
    IN  [Address |-> address, Balance |-> e.exec[addr].balance, Nonce |-> e.exec[addr].nonce]

Query(path) ==
    IF path = HeightPath THEN [Code |-> 0, Value |-> appHeight]
    ELSE IF Len(path) > 8 /\ Slice(path, 8) = BalancePrefix
    THEN LET address == SliceFrom(path, 8)
         IN  [Code |-> 0,
              Value |-> [address |-> address, balance |-> GetState(evm, address).Balance]]
    ELSE IF Len(path) > 7 /\ Slice(path, 7) = AccountPrefix
    THEN [Code |-> 0, Value |-> GetState(evm, SliceFrom(path, 7))]
    ELSE IF Len(path) > 3 /\ Slice(path, 3) = TxPrefix
    THEN IF SliceFrom(path, 3)[1] \in storedTxs
         THEN [Code |-> 0, Value |-> SliceFrom(path, 3)[1]]
         ELSE [Code |-> 1, Value |-> ""]
    ELSE IF Len(path) > 6 /\ Slice(path, 6) = BlockPrefix
    THEN IF SliceFrom(path, 6)[1] \in DOMAIN storedBlocks
         THEN [Code |-> 0, Value |-> storedBlocks[SliceFrom(path, 6)[1]]]
         ELSE [Code |-> 1, Value |-> ""]
    ELSE [Code |-> 1, Value |-> ""]

\* the entries of times that are inside the window at time t
RECURSIVE Live(_, _)
Live(times, t) ==
    IF times = <<>> THEN <<>>
    ELSE (IF t - Head(times) < RateWindow THEN <<Head(times)>> ELSE <<>>)
             \o Live(Tail(times), t)
GetCount(address) == Len(Live(limiter.times[address], now))

\* Allow(address) in three steps: take the lock of the sender, count the
\* admissions inside the window, then admit and record, or refuse
AllowEnterUnlocked(c, address) ==
    /\ limiter.calls[c].pc = "idle"
    /\ limiter' = [limiter EXCEPT !.calls[c] = [NoCall EXCEPT !.pc = "entered",
                                                           !.address = address]]
    /\ UNCHANGED <<valVars, now, appVars, evm, storedMeta, storedBlocks, storedTxs,
                   latestHeight, decided, peer, disturbed, blockCalls, committed, checked,
                   proposal>>
AllowEnter(c, address) ==
    /\ limiter.calls[c].pc = "idle"
    /\ limiter.lock[address] = 0
    /\ limiter' = [limiter EXCEPT !.lock[address] = c,
                                  !.calls[c] = [NoCall EXCEPT !.pc = "entered",
                                                           !.address = address]]
    /\ UNCHANGED <<valVars, now, appVars, evm, storedMeta, storedBlocks, storedTxs,
                   latestHeight, decided, peer, disturbed, blockCalls, committed, checked,
                   proposal>>

AllowCount(c) ==
    /\ limiter.calls[c].pc = "entered"
    /\ limiter' = [limiter EXCEPT
                       !.calls[c].pc = "counted",
                       !.calls[c].seen = Live(limiter.times[limiter.calls[c].address], now)]
    /\ UNCHANGED <<valVars, now, appVars, evm, storedMeta, storedBlocks, storedTxs,
                   latestHeight, decided, peer, disturbed, blockCalls, committed, checked,
                   proposal>>

AllowReturn(c) ==
    /\ limiter.calls[c].pc = "counted"
    /\ LET address == limiter.calls[c].address
           seen == limiter.calls[c].seen
           allowed == Len(seen) < MaxRate
       IN  limiter' = [limiter EXCEPT
                          !.times[address] = IF allowed THEN Append(seen, now) ELSE @,
                          !.granted[address] = IF allowed THEN Append(@, now) ELSE @,
                          !.lock[address] = IF @ = c THEN 0 ELSE @,
                          !.calls[c] = [NoCall EXCEPT !.address = address,
                                                       !.result = allowed]]
    /\ UNCHANGED <<valVars, now, appVars, evm, storedMeta, storedBlocks, storedTxs,
                   latestHeight, decided, peer, disturbed, blockCalls, committed, checked,
                   proposal>>

\* CheckTx of the mempool connection
CheckTxReloading(tx) ==
    /\ phase \in {"idle", "finalized"}
    /\ checked' = [tx |-> tx.hash, code |-> CheckTxCode(evm.exec, tx)]
    /\ evm' = LoadState(storedMeta)
    /\ UNCHANGED <<valVars, now, appVars, storedMeta, storedBlocks, storedTxs,
                   latestHeight, decided, peer, disturbed, blockCalls, committed,
                   limiter,
                   proposal>>
CheckTx(tx) ==
    /\ phase \in {"idle", "finalized"}
    /\ checked' = [tx |-> tx.hash, code |-> CheckTxCode(evm.exec, tx)]
    /\ UNCHANGED <<valVars, now, appVars, evm, storedMeta, storedBlocks, storedTxs,
                   latestHeight, decided, peer, disturbed, blockCalls, committed,
                   limiter,
                   proposal>>

Next ==
    \/ \E a \in Addrs, st \in RegisterStakes : RegisterValidator(a, Key(a, PubKeySize), st)
    \/ \E a \in Members, amount \in StakeAmounts : Stake(a, amount)
    \/ \E a \in Members, amount \in StakeAmounts : Unstake(a, amount)
    \/ \E a \in Members, pct \in SlashPercents, d \in JailDurations : Slash(a, pct, d)
    \/ \E a \in Members : Unjail(a)
    \/ Tick
    \/ \E req \in InitChainRequests : InitChain(req.validators, req.initialHeight)
    \/ FinalizeBlock(nextHeight, <<>>)
    \/ Commit("none")
    \/ Restart

Spec == Init /\ [][Next]_vars

NextTx ==
    \/ InitChain(TxGenesis, 1)
    \/ \E txs \in TxLists : nextHeight \in TxHeights /\ FinalizeBlock(nextHeight, txs)
    \/ \E failed \in StorageFailures : Commit(failed)
    \/ Restart
    \/ \E after \in CrashPoints : CrashInCommit(after)
    \/ \E a \in {"A"}, amount \in {1} : FundAccount(a, amount)

SpecTx == Init /\ [][NextTx]_vars

\* the mempool connection beside the consensus connection
FundAmounts == {1, IntrinsicGas, IntrinsicGas + 1}
NextCheck ==
    \/ InitChain(TxGenesis, 1)
    \/ \E tx \in CheckTxUniverse : CheckTx(tx)
    \/ \E txs \in {<<>>} \cup {<<tx>> : tx \in CheckTxUniverse} :
           nextHeight \in TxHeights /\ FinalizeBlock(nextHeight, txs)
    \/ Commit("none")
    \/ \E amount \in FundAmounts : FundAccount("A", amount)

SpecCheck == Init /\ [][NextCheck]_vars

\* concurrent admission attempts at the rate limiter
NextRate ==
    \/ \E c \in Callers, a \in Senders : AllowEnter(c, a)
    \/ \E c \in Callers : AllowCount(c)
    \/ \E c \in Callers : AllowReturn(c)
    \/ Tick

SpecRate == Init /\ [][NextRate]_vars

\* the observation of the signers of each block
NextActivity ==
    \/ \E req \in InitChainRequests : InitChain(req.validators, req.initialHeight)
    \/ \E a \in Addrs, missedBlock \in BOOLEAN : UpdateValidatorActivity(a, missedBlock)

SpecActivity == Init /\ [][NextActivity]_vars

\* the proposals of a node, for every mempool, limit and list of hints
NextProposal ==
    \E localMempool \in MempoolLists, maxTxBytes \in 0..MaxBytes, reqTxs \in HintLists :
        PrepareProposal(localMempool, maxTxBytes, reqTxs)

SpecProposal == Init /\ [][NextProposal]_vars

\* ------------------------------------------------------------------ claims
AtBoundary == phase = "finalized" /\ response.height > 0 /\ response.height % RotationInterval = 0

\* public key -> power of the validators that are active in vals
ActiveSnapshot(vals) ==
    [k \in {vals[a].pubKey : a \in ActiveAddrs(vals)} |->
        vals[CHOOSE a \in ActiveAddrs(vals) : vals[a].pubKey = k].power]

HasUpdate(updates, k, power) ==
    \E i \in DOMAIN updates : updates[i].pubKey = k /\ updates[i].power = power

\* C1: FinalizeBlock at a rotation boundary returns no validator update when no
\* stake, jail state or membership has changed since InitChain, whatever the
\* size of the set.
C1_NoChangeNoUpdates ==
    (AtBoundary /\ ~valChanged) => response.validatorUpdates = <<>>

\* C2: the updates FinalizeBlock returns at a rotation boundary are the difference
\* between the set the engine was given before and the active snapshot: empty iff
\* the two are equal, a changed power listed with the new power, a validator
\* that left listed with power 0.
C2_UpdatesAreTheDifference ==
    AtBoundary =>
        LET snapshot == ActiveSnapshot(validators)
            updates == response.validatorUpdates
        IN  /\ (updates = <<>>) <=> (snapshot = emittedBefore)
            /\ \A k \in DOMAIN snapshot :
                   (k \notin DOMAIN emittedBefore \/ emittedBefore[k] # snapshot[k])
                       => HasUpdate(updates, k, snapshot[k])
            /\ \A k \in (DOMAIN emittedBefore) \ (DOMAIN snapshot) : HasUpdate(updates, k, 0)

\* C3: in a run of InitChain and FinalizeBlock/Commit pairs, Info and
\* Query("height") return the height of the last block whose Commit completed.
C3_HeightIsCommittedHeight ==
    (phase \in {"idle", "finalized"} /\ disturbed = NotDisturbed)
        => (Info.LastBlockHeight = engineHeight /\ QueryHeight = engineHeight)

\* C4: after a restart Info returns the height and the app-hash of the last
\* committed block, as the persisted metadata hold them.
C4_InfoAfterRestart ==
    phase = "restarted"
        => /\ Info.LastBlockHeight = storedMeta.height
           /\ Info.LastBlockAppHash = storedMeta.appHash

\* C7: every validator of the set has power = floor(stake / 10^18), clamped to
\* the range [0, 2^30].
C7_PowerIsClampedStake ==
    \A a \in DOMAIN validators :
        validators[a].power = Max(0, Min(validators[a].stake \div StakeUnit, MaxPower))

C7_Witness ==
    /\ lastOp.op = "Stake"
    /\ lastOp.addr \in DOMAIN validators
    /\ validators[lastOp.addr].stake = lastOp.pre.stake + lastOp.args.amount
    /\ validators[lastOp.addr].stake \div StakeUnit > MaxPower
    /\ validators[lastOp.addr].power = MaxPower

\* C8: every validator that GetActiveValidators, ToCometBFTValidators or
\* RotateValidators returns is not jailed and holds at least the minimum stake.
C8_ActiveNotJailedAndStaked ==
    /\ \A s \in GetActiveValidators(validators) : \A i \in DOMAIN s :
           ~s[i].jailed /\ s[i].stake >= MinStake
    /\ \A s \in ToCometBFTValidators(validators) \cup RotateUpdates(RotatePowers(validators)) :
           \A i \in DOMAIN s : \E a \in DOMAIN validators :
               /\ validators[a].pubKey = s[i].pubKey
               /\ ~validators[a].jailed
               /\ validators[a].stake >= MinStake

C8_Witness ==
    /\ \E a \in DOMAIN validators : validators[a].jailed /\ validators[a].stake >= MinStake
    /\ \E a \in DOMAIN validators : ~validators[a].jailed /\ validators[a].stake < MinStake
    /\ GetActiveValidators(validators) # {<<>>}

\* C10: Slash takes floor(stake * percent / 100) from the stake, jails the
\* validator until now + jail_duration and recomputes its power, and removes it
\* in the same operation when less than the minimum stake is left; the validator
\* a Slash or an Unstake acted on is never a member with less than the minimum.
C10_SlashedOrEvicted ==
    /\ lastOp.op = "Slash" =>
           LET stake == lastOp.pre.stake - ((lastOp.pre.stake * lastOp.args.percent) \div 100)
           IN  IF stake < MinStake
               THEN lastOp.addr \notin DOMAIN validators
               ELSE /\ lastOp.addr \in DOMAIN validators
                    /\ validators[lastOp.addr].stake = stake
                    /\ validators[lastOp.addr].jailed
                    /\ validators[lastOp.addr].jailedUntil = lastOp.time + lastOp.args.duration
                    /\ validators[lastOp.addr].power = Max(0, Min(stake \div StakeUnit, MaxPower))
    /\ (lastOp.op \in {"Slash", "Unstake"} /\ lastOp.addr \in DOMAIN validators)
           => validators[lastOp.addr].stake >= MinStake

C10_Witness ==
    /\ lastOp.op = "Slash"
    /\ lastOp.pre.stake >= MinStake
    /\ lastOp.args.percent = 50
    /\ lastOp.addr \notin DOMAIN validators

\* C5: after a crash between FinalizeBlock(h) and Commit(h), the replay of
\* FinalizeBlock(h) with the same transactions and Commit(h) gives the app-hash
\* of the node that was not interrupted.
C5_ReplayGivesSameAppHash ==
    (/\ phase = "idle"
     /\ engineHeight > 0
     /\ appHeight = engineHeight
     /\ disturbed.funds = 0
     /\ ~disturbed.crashedIdle)
        => appHash = peer.appHash

\* C6: the response of FinalizeBlock holds one result per transaction, the i-th
\* for the i-th transaction; a transaction that fails to decode, to validate or
\* to execute gets a non-zero code, and every transaction that decodes and
\* validates is executed, whatever happened to the ones before it.
C6_OneResultPerTransaction ==
    phase = "finalized" =>
        LET txs == decided.txs
            results == response.txResults
        IN  /\ Len(results) = Len(txs)
            /\ \A i \in DOMAIN txs :
                   /\ results[i].tx = txs[i].hash
                   /\ ~txs[i].decodes => results[i].code = 1
                   /\ (txs[i].decodes /\ txs[i].from \notin Accts) => results[i].code = 2
                   /\ (txs[i].decodes /\ txs[i].from \in Accts /\ ~txs[i].valueOK)
                          => results[i].code = 3
                   /\ (txs[i].decodes /\ txs[i].from \in Accts /\ txs[i].valueOK)
                          => results[i].code \in {0, 4}
            /\ Cardinality({i \in DOMAIN results : results[i].code = 0}) = Len(currentBlockTxs)

C6_Witness ==
    /\ phase = "finalized"
    /\ Len(decided.txs) = 2
    /\ Len(response.txResults) = 2
    /\ response.txResults[1].code = 1
    /\ response.txResults[2].code = 0
    /\ evm.exec[decided.txs[2].from].nonce = 1

\* C9: two nodes given the same genesis and the same InitChain, FinalizeBlock
\* and Commit calls hold the same app-hash after every Commit, whatever else
\* the node served in between.
C9_SameCallsSameAppHash ==
    (phase = "idle" /\ engineHeight > 0 /\ disturbed.crashes = 0) => appHash = peer.appHash

\* a call of a ValidatorSet operation gets vs.mutex, so that it can return
CallReturns == mutex = "unlocked"

\* C11: RegisterValidator returns an error and leaves the set unchanged when the
\* address is present, the stake is below the minimum, or the set is full and
\* the stake does not exceed the smallest one; otherwise it returns without an
\* error, has added the validator and, when the set was full, has removed
\* exactly one member of smallest stake.
C11_RegisterFailsOrSucceeds ==
    /\ \A a \in Addrs, sz \in KeySizes, st \in RegisterStakes :
           \A out \in RegisterResult(validators, a, Key(a, sz), st, now) :
               LET full == Cardinality(DOMAIN validators) >= MaxValidators
                   lowest == {b \in DOMAIN validators :
                                 \A c \in DOMAIN validators :
                                     validators[b].stake <= validators[c].stake}
                   mustFail == \/ a \in DOMAIN validators
                               \/ st < MinStake
                               \/ full /\ \A b \in lowest : st <= validators[b].stake
               IN  IF mustFail
                   THEN out.err /\ out.vals = validators
                   ELSE /\ ~out.err
                        /\ a \in DOMAIN out.vals
                        /\ out.vals[a].stake = st
                        /\ out.vals[a].pubKey = Key(a, sz)
                        /\ ~out.vals[a].jailed
                        /\ IF full
                           THEN \E low \in lowest :
                                    DOMAIN out.vals = ((DOMAIN validators) \ {low}) \cup {a}
                           ELSE DOMAIN out.vals = (DOMAIN validators) \cup {a}
                        /\ \A b \in (DOMAIN out.vals) \ {a} : out.vals[b] = validators[b]
    /\ lastOp.op = "RegisterValidator" => CallReturns

\* C12: a call of Stake or Unstake for a jailed validator, and a call of Unstake
\* that would leave less than the minimum stake, returns an error and leaves
\* the stake, the power and the membership of the validator as they were.
C12_StakeUnstakeFail ==
    \A a \in DOMAIN validators, amount \in StakeAmounts \cup {MaxStake} :
        LET staked == StakeResult(validators, a, amount)
            unstaked == UnstakeResult(validators, a, amount)
        IN  /\ validators[a].jailed =>
                   /\ CallReturns
                   /\ staked.err /\ staked.vals = validators
                   /\ unstaked.err /\ unstaked.vals = validators
            /\ validators[a].stake - amount < MinStake =>
                   unstaked.err /\ unstaked.vals = validators

\* C13: a call of Unjail for a validator that is jailed, at a time not before
\* jailed_until, returns without an error and has cleared jailed and
\* jailed_until and set the consecutive missed blocks to 0; any other call of
\* Unjail returns an error and changes nothing.
C13_UnjailSucceedsOrFails ==
    \A a \in Addrs :
        LET out == UnjailResult(validators, a, now)
        IN  IF a \in DOMAIN validators /\ validators[a].jailed
               /\ now >= validators[a].jailedUntil
            THEN /\ CallReturns
                 /\ ~out.err
                 /\ out.vals = Put(validators, a,
                                   [validators[a] EXCEPT !.jailed = FALSE, !.jailedUntil = 0,
                                                         !.missedBlocks = 0])
            ELSE out.err /\ out.vals = validators

\* C14: InitChain seeds the validator set from the genesis only when the
\* persisted set is empty; a persisted set that is not empty, active members or
\* none, is left as it is, every validator of it unchanged; in both cases the
\* app-hash InitChain returns is the zero hash.
C14_SeedsOnlyEmptySet ==
    [][(phase \in {"new", "restarted"} /\ phase' = "idle") =>
           LET persisted == LoadValidators(validators, storedValidators)
           IN  /\ DOMAIN persisted # {} =>
                      /\ validators' = persisted
                      /\ storedValidators' = storedValidators
               /\ DOMAIN persisted = {} =>
                      DOMAIN validators' = {BytesToAddress(genesis'[i].pubKey) : i \in DOMAIN genesis'}
               /\ appHash' = ZeroHash]_vars

\* C15: a transaction of a finalized block that got a non-zero code is not
\* stored under tx/<hash>, is not in the transaction list of the block, and
\* its hash has been passed to the mempool-removal callback (stated for the
\* transactions that decode, whose hash is known, and leaving aside a hash that
\* another transaction of the same block succeeded with).
C15_FailedTxsAreEvicted ==
    phase = "finalized" =>
        \A i \in DOMAIN decided.txs :
            LET tx == decided.txs[i]
                succeeded == \E j \in DOMAIN decided.txs :
                                 /\ decided.txs[j].hash = tx.hash
                                 /\ response.txResults[j].code = 0
            IN  (tx.decodes /\ response.txResults[i].code # 0 /\ ~succeeded) =>
                    /\ tx.hash \notin blockCalls.saved
                    /\ \A k \in DOMAIN currentBlockTxs : currentBlockTxs[k].hash # tx.hash
                    /\ tx.hash \in blockCalls.cleared

RECURSIVE Moved(_, _, _, _)
Moved(txs, results, a, i) ==
    IF i > Len(txs) THEN 0
    ELSE LET tx == txs[i]
             fee == IntrinsicGas * tx.gasPrice
         IN  (IF results[i].code # 0 THEN 0
              ELSE (IF HexToAddress(tx.from) = a THEN 0 - (tx.value + fee) ELSE 0)
                   + (IF HexToAddress(tx.to) = a THEN tx.value ELSE 0)
                   + (IF a = ZeroAddress THEN fee ELSE 0))
             + Moved(txs, results, a, i + 1)

\* C17: of two transactions of a proposal with the same sender and the same
\* nonce, once the first is applied the second gets a non-zero code, its hash is
\* passed to the mempool-removal callback and it moves no value: the balances
\* change by what the transactions with code 0 move, and by nothing else.
C17_SameNonceSecondFails ==
    [][(phase # "finalized" /\ phase' = "finalized") =>
           LET txs == decided'.txs
               results == response'.txResults
           IN  /\ \A i, j \in DOMAIN txs :
                      (/\ i < j
                       /\ txs[i].decodes /\ txs[j].decodes
                       /\ txs[i].from = txs[j].from
                       /\ txs[i].nonce = txs[j].nonce
                       /\ results[i].code = 0)
                          => /\ results[j].code # 0
                             /\ txs[j].hash \in blockCalls'.cleared
               /\ \A a \in Accts :
                      evm'.exec[a].balance = evm.exec[a].balance + Moved(txs, results, a, 1)]_vars

\* C18: every transaction of a finalized block that passes re-validation and is
\* executed (code 0 or code 4) yields exactly one receipt and raises the nonce
\* of its sender by one, so that the nonce of a sender grows by the number of
\* receipts of its transactions.
C18_OneReceiptPerExecution ==
    [][(phase # "finalized" /\ phase' = "finalized") =>
           \A a \in Accts :
               LET txs == decided'.txs
                   executed == {i \in DOMAIN txs : /\ response'.txResults[i].code \in {0, 4}
                                                   /\ txs[i].from = a}
                   receipts == {k \in DOMAIN currentBlockReceipts' :
                                    \E i \in executed :
                                        txs[i].hash = currentBlockReceipts'[k].TransactionHash}
               IN  /\ Cardinality(receipts) = Cardinality(executed)
                   /\ evm'.exec[a].nonce = evm.exec[a].nonce + Cardinality(executed)
                   /\ evm'.exec[a].nonce = evm.exec[a].nonce + Cardinality(receipts)]_vars

\* C19: a Commit in which persisting the state, the metadata or the block fails
\* returns an error, and the height and the application hash that Info reports
\* are after it what they were before it.
C19_FailedCommitReturnsError ==
    [][(phase = "finalized" /\ phase' = "idle" /\ committed'.failed # "none") =>
           /\ committed'.err
           /\ appHash' = appHash
           /\ appHeight' = appHeight]_vars

\* C20: CheckTx answers a non-zero code for every transaction whose gas limit
\* times gas price plus value is more than the balance of its sender, also when
\* the value is 0.
C20_CheckTxRejectsUnfunded ==
    [][checked' # checked =>
           \A tx \in CheckTxUniverse :
               (/\ tx.hash = checked'.tx
                /\ tx.decodes
                /\ validateTransaction(tx)
                /\ tx.valueOK
                /\ tx.gasPriceOK
                /\ tx.value + tx.gasPrice * IntrinsicGas > evm.exec[tx.from].balance)
                   => checked'.code # 0]_vars

\* C21: CheckTx answers code 2 for every transaction whose nonce is lower than
\* the nonce of its sender's account.
C21_CheckTxRejectsLowNonce ==
    [][checked' # checked =>
           \A tx \in CheckTxUniverse :
               (/\ tx.hash = checked'.tx
                /\ tx.decodes
                /\ tx.from \in Accts
                /\ tx.nonce < evm.exec[tx.from].nonce)
                   => checked'.code = 2]_vars

\* a transaction that has nothing wrong but its nonce has been rejected
C21_Witness ==
    /\ checked = [tx |-> "c1", code |-> 2]
    /\ evm.exec["A"].nonce = 1
    /\ evm.exec["A"].balance >= IntrinsicGas

\* C22: CheckTx changes neither the height, the application hash, the account
\* state, the validator set, the store nor the lists of the pending block, and
\* a second CheckTx of the same transaction gets the response of the first.
C22_CheckTxChangesNothing ==
    [][(checked' # checked /\ checked'.tx # "") =>
           /\ UNCHANGED <<appHeight, appHash, appValidators, evm, validators,
                          storedValidators, storedMeta, storedBlocks, storedTxs,
                          latestHeight, currentBlockHeight, currentBlockTxs,
                          currentBlockReceipts>>
           /\ \A tx \in CheckTxUniverse :
                  tx.hash = checked'.tx => CheckTxCode(evm'.exec, tx) = checked'.code]_vars

\* a transaction was admitted while a funded sender has a block pending
C22_Witness ==
    /\ checked = [tx |-> "c4", code |-> 0]
    /\ phase = "finalized"
    /\ Len(currentBlockTxs) = 1
    /\ evm.exec["A"].balance > 0

\* C23: every stored block of a height h > 0 carries as parent hash the hash of
\* the stored block of height h - 1; only a block of height 0 has an empty
\* parent hash.
C23_ParentHashChain ==
    \A h \in DOMAIN storedBlocks :
        IF h = 0 THEN storedBlocks[h].ParentHash = ""
        ELSE /\ (h - 1) \in DOMAIN storedBlocks
             /\ storedBlocks[h].ParentHash = storedBlocks[h - 1].Hash

\* C24: a successful plain transfer of v from A to B with gas limit 21000 and
\* gas price p yields a receipt with status success and gas used 21000, and
\* leaves A with v + 21000 * p less, B with v more and the nonce of A one higher.
C24_TransferArithmetic ==
    [][(/\ phase # "finalized"
        /\ phase' = "finalized"
        /\ Len(decided'.txs) = 1
        /\ response'.txResults[1].code = 0
        /\ decided'.txs[1].to \in Accts \ {decided'.txs[1].from, ZeroAddress}) =>
           LET tx == decided'.txs[1]
           IN  /\ Len(currentBlockReceipts') = 1
               /\ currentBlockReceipts'[1].TransactionHash = tx.hash
               /\ currentBlockReceipts'[1].Status = "success"
               /\ currentBlockReceipts'[1].GasUsed = 21000
               /\ response'.txResults[1].gasUsed = 21000
               /\ evm'.exec[tx.from].balance =
                      evm.exec[tx.from].balance - tx.value - 21000 * tx.gasPrice
               /\ evm'.exec[tx.to].balance = evm.exec[tx.to].balance + tx.value
               /\ evm'.exec[tx.from].nonce = evm.exec[tx.from].nonce + 1]_vars

\* a transfer with a value and a gas price has been applied
C24_Witness ==
    /\ phase = "finalized"
    /\ Len(decided.txs) = 1
    /\ decided.txs[1].value > 0
    /\ decided.txs[1].gasPrice > 0
    /\ response.txResults[1].code = 0
    /\ evm.exec[decided.txs[1].to].balance = decided.txs[1].value

\* C25: Query answers code 0 with the current state of the account for
\* balance/<addr> and for account/<addr>, also for an address that was never
\* used, and a non-zero code for a path it does not know.
C25_QueryAccount ==
    /\ \A a \in Accts :
           /\ Query(BalancePrefix \o <<a>>) =
                  [Code |-> 0, Value |-> [address |-> <<a>>, balance |-> evm.exec[a].balance]]
           /\ Query(AccountPrefix \o <<a>>) =
                  [Code |-> 0,
                   Value |-> [Address |-> <<a>>, Balance |-> evm.exec[a].balance,
                              Nonce |-> evm.exec[a].nonce]]
    /\ Query(UnknownPath).Code # 0

C27_NoSaveUnderWriteLock ==
    /\ mutex # "deadlocked"
    /\ phase # "blocked"

\* C28: after Commit the handle that was committed is not used again: what
\* FinalizeBlock, CheckTx and Query read and write through the executor is the
\* handle the state manager reloaded from the committed root, so that the two
\* are one object and the committed root is the root of the executor's state.
C28_ReloadedHandleIsUsed ==
    /\ evm.same
    /\ (phase = "idle" /\ engineHeight > 0 /\ disturbed = NotDisturbed)
           => appHash = Root(evm.exec)

\* C29: a transaction that CheckTx would reject in the state in which
\* FinalizeBlock meets it (no or a wrong signature, a wrong hash, a nonce below
\* the account's, a balance that does not cover it) gets a non-zero code from
\* FinalizeBlock and changes no account.
C29_FinalizeBlockRevalidates ==
    [][(/\ phase # "finalized"
        /\ phase' = "finalized"
        /\ Len(decided'.txs) = 1
        /\ decided'.txs[1] \in CheckTxUniverse
        /\ CheckTxCode(evm.exec, decided'.txs[1]) # 0) =>
           /\ response'.txResults[1].code # 0
           /\ evm'.exec = evm.exec]_vars

\* C30: a jailed validator stays jailed, and outside the active set, in every
\* later state, until a call of Unjail for it succeeds at a time that is not
\* before its jailedUntil; no other step clears or replaces its jailed state.
C30_JailedUntilUnjail ==
    [][\A a \in DOMAIN validators :
           validators[a].jailed =>
               \/ a \notin DOMAIN validators'
               \/ /\ validators'[a].jailed
                  /\ validators'[a].jailedUntil = validators[a].jailedUntil
                  /\ a \notin ActiveAddrs(validators')
               \/ /\ lastOp'.op = "Unjail"
                  /\ lastOp'.addr = a
                  /\ now >= validators[a].jailedUntil]_vars

\* C31: after a crash inside Commit(h) the store is consistent: the state
\* metadata, block/<h> and latest_height are all those of height h, or all
\* those the store held before the Commit.
C31_CrashInCommitIsAtomic ==
    [][disturbed'.inCommit > disturbed.inCommit =>
           LET h == currentBlockHeight
           IN  \/ /\ storedMeta'.present
                  /\ storedMeta'.height = h
                  /\ h \in DOMAIN storedBlocks'
                  /\ storedBlocks'[h].Hash = storedMeta'.appHash
                  /\ latestHeight' = h
               \/ /\ storedMeta' = storedMeta
                  /\ storedBlocks' = storedBlocks
                  /\ latestHeight' = latestHeight]_vars

\* C32: between FinalizeBlock(h) and the end of Commit(h) no request-serving
\* path (fund-account, CheckTx, Query) changes the account state: while a
\* finalized block waits for its Commit the state stays what FinalizeBlock
\* left.
C32_StateExclusiveDuringBlock ==
    [][(phase = "finalized" /\ phase' = "finalized") => evm' = evm]_vars

\* C33: a missed block increments the consecutive and the total count of the
\* validator, a signed block resets the consecutive count; when the
\* consecutive count reaches the threshold the set holds a pending slash for
\* the validator after the call, and the call does not enter Slash
C33_ActivityRecordsPendingSlash ==
    LET a == lastOp.addr
        pre == lastOp.pre
    IN  (lastOp.op = "UpdateValidatorActivity" /\ pre.address = a /\ a \in DOMAIN validators) =>
            /\ mutex = "unlocked"
            /\ validators[a].stake = pre.stake
            /\ validators[a].jailed = pre.jailed
            /\ IF lastOp.args.missed
               THEN /\ validators[a].totalMissed = pre.totalMissed + 1
                    /\ pre.missedBlocks + 1 < MissThreshold =>
                           validators[a].missedBlocks = pre.missedBlocks + 1
                    /\ pre.missedBlocks + 1 >= MissThreshold =>
                           a \in PendingSlashes(validators)
               ELSE /\ validators[a].missedBlocks = 0
                    /\ validators[a].totalMissed = pre.totalMissed
\* C34: every active snapshot the set can return (GetActiveValidators,
\* ToCometBFTValidators, the updates of RotateValidators) is ordered by stake,
\* largest first, and has at most MaxValidators entries, whatever the set holds
C34_SnapshotSortedAndBounded ==
    /\ \A s \in GetActiveValidators(validators) : SortedDesc(s) /\ Len(s) <= MaxValidators
    /\ \A u \in ToCometBFTValidators(validators) :
           /\ Len(u) <= MaxValidators
           /\ \A i, j \in DOMAIN u : i < j => u[i].power >= u[j].power
    /\ \A u \in RotateUpdates(RotatePowers(validators)) :
           /\ Len(u) <= MaxValidators
           /\ \A i, j \in DOMAIN u : i < j => u[i].power >= u[j].power

\* the transactions of txs whose result carries code 0, in the order of txs
RECURSIVE Accepted(_, _)
Accepted(txs, results) ==
    IF txs = <<>> THEN <<>>
    ELSE (IF Head(results).code = 0 THEN <<Head(txs)>> ELSE <<>>)
             \o Accepted(Tail(txs), Tail(results))

\* C35: when FinalizeBlock has returned, the transactions and the receipts of
\* the block are lists of one length, receipt i carries the hash of
\* transaction i and the height of the block, and the transactions are the
\* executed ones in the order of the proposal
C35_ReceiptsMatchTxs ==
    phase = "finalized" =>
        /\ Len(currentBlockReceipts) = Len(currentBlockTxs)
        /\ \A i \in DOMAIN currentBlockTxs :
               /\ currentBlockReceipts[i].TransactionHash = currentBlockTxs[i].hash
               /\ currentBlockReceipts[i].BlockNumber = currentBlockHeight
        /\ currentBlockHeight = response.height
        /\ currentBlockTxs = Accepted(decided.txs, response.txResults)
C35_Witness ==
    /\ phase = "finalized"
    /\ Len(decided.txs) = 2
    /\ \/ Len(currentBlockTxs) = 2 /\ currentBlockTxs[1].hash # currentBlockTxs[2].hash
       \/ Len(currentBlockTxs) = 1 /\ response.txResults[1].code = 4

RECURSIVE TotalSize(_)
TotalSize(txs) == IF txs = <<>> THEN 0 ELSE Size(Head(txs)) + TotalSize(Tail(txs))

\* C36: the list PrepareProposal returns is not longer in bytes than
\* max_bytes, begins with the entries taken from the local mempool, in the
\* order of the mempool, followed by hints only, and holds no transaction twice
C36_ProposalBoundedOrderedUnique ==
    LET txs == proposal.txs
        n == Len(proposal.local)
    IN  /\ TotalSize(txs) <= proposal.maxTxBytes
        /\ n <= Len(txs) /\ n <= Len(proposal.mempool)
        /\ \A i \in 1..n : txs[i] = Marshal(proposal.mempool[i])
        /\ \A i \in (n + 1)..Len(txs) : \E j \in DOMAIN proposal.hints : proposal.hints[j] = txs[i]
        /\ \A i, j \in DOMAIN txs : i # j => Unmarshal(txs[i]) # Unmarshal(txs[j])

\* C37: a transaction that Query returns under tx/<hash> is in the list of
\* a stored block whose height is not above latest_height: what a block that
\* was finalized and not committed wrote is not readable, after a crash too
C37_ReadableTxIsCommitted ==
    \A path \in {TxPrefix \o <<tx.hash>> : tx \in TxUniverse} :
        Query(path).Code = 0 =>
            \E h \in DOMAIN storedBlocks :
                /\ h <= latestHeight
                /\ \E i \in DOMAIN storedBlocks[h].Transactions :
                       storedBlocks[h].Transactions[i].hash = Query(path).Value

\* C38: when InitChain returns, the validators of its response are, in public
\* keys and powers, the active validators of the set, whether the set was
\* seeded from the genesis or loaded from storage
C38_InitChainReturnsActiveSet ==
    [][(phase \in {"new", "restarted"} /\ phase' = "idle") =>
           /\ ToMap(appValidators') = ActiveSnapshot(validators')
           /\ \A i, j \in DOMAIN appValidators' :
                  i # j => appValidators'[i].pubKey # appValidators'[j].pubKey]_vars

\* C39: the (public key, power) entries RotateValidators returns are decided
\* by the contents of the validator set: every run on one set gives the same
\* entries, with equal stakes at the cut to MaxValidators too
C39_RotationIsDeterministic ==
    \A u1, u2 \in RotateUpdates(RotatePowers(validators)) : Range(u1) = Range(u2)

\* what each of the five operations can leave of the set vals at time t
OperationResults(vals, t) ==
    UNION {RegisterResult(vals, a, Key(a, PubKeySize), st, t) : a \in Addrs, st \in RegisterStakes}
        \cup {StakeResult(vals, a, amount) : a \in Addrs, amount \in StakeAmounts}
        \cup {UnstakeResult(vals, a, amount) : a \in Addrs, amount \in StakeAmounts}
        \cup {Done(SlashResult(vals, a, pct, d, t)) :
                  a \in DOMAIN vals, pct \in SlashPercents, d \in JailDurations}
        \cup {UnjailResult(vals, a, t) : a \in Addrs}

\* C40: a set of at most MaxValidators members has at most MaxValidators
\* members after RegisterValidator, Stake, Unstake, Slash or Unjail, whatever
\* the arguments, and so after every sequence of them
C40_OperationsKeepTheBound ==
    /\ Cardinality(DOMAIN validators) <= MaxValidators =>
           \A out \in OperationResults(validators, now) :
               Cardinality(DOMAIN out.vals) <= MaxValidators
    /\ (lastOp.op \in {"RegisterValidator", "Stake", "Unstake", "Slash", "Unjail"}
           /\ Len(genesis) <= MaxValidators) =>
           Cardinality(DOMAIN validators) <= MaxValidators
C40_Witness ==
    /\ Len(genesis) = MaxValidators
    /\ lastOp.op = "RegisterValidator"
    /\ lastOp.addr \in DOMAIN validators
    /\ \A i \in DOMAIN genesis : BytesToAddress(genesis[i].pubKey) # lastOp.addr
    /\ Cardinality(DOMAIN validators) = MaxValidators

=============================================================================
